---- MODULE Spec2Model ----
(***************************************************************************)
(* Model of the historical county-GDP pipeline of                          *)
(* USCountyGDPDatabase(2004-2022).py: fetch_county_gdp, process_bea_data,  *)
(* create_database and main.                                               *)
(*                                                                         *)
(* Text that the code parses (GeoName, DataValue, TimePeriod) is held as a *)
(* sequence of one-character strings, so that the regular expression and   *)
(* the numeric conversions are computed character by character.  GeoFips   *)
(* is copied verbatim by the code and stays an opaque string.              *)
(*                                                                         *)
(* gdp_billions is held in fixed point, in thousandths of a billion: the   *)
(* code's "/ 1000" of an integral DataValue is then exact.                 *)
(***************************************************************************)
EXTENDS Integers, Sequences, FiniteSets, TLC

VARIABLES pc, year, response, raw_data, processed_data, all_data_frames,
          all_data, db, prior, log

vars == <<pc, year, response, raw_data, processed_data, all_data_frames,
          all_data, db, prior, log>>

(***************************************************************************)
(* Bounds of the model and constants of the program                        *)
(***************************************************************************)
\* number of years of range(2004, 2023) that the model walks through
NumYears == 2
\* largest number of rows in one upstream response / one combined data set
MaxRows == 2
FirstYear == 2004
LastYear == FirstYear + NumYears - 1
Years == FirstYear .. LastYear

(***************************************************************************)
(* Characters and numbers                                                  *)
(***************************************************************************)
Digits == {"0", "1", "2", "3", "4", "5", "6", "7", "8", "9"}

\* the characters the regular expression class \w accepts (ASCII), in the
\* order in which Python compares them
AsciiOrder ==
    <<"0", "1", "2", "3", "4", "5", "6", "7", "8", "9",
      "A", "B", "C", "D", "E", "F", "G", "H", "I", "J", "K", "L", "M",
      "N", "O", "P", "Q", "R", "S", "T", "U", "V", "W", "X", "Y", "Z", "_",
      "a", "b", "c", "d", "e", "f", "g", "h", "i", "j", "k", "l", "m",
      "n", "o", "p", "q", "r", "s", "t", "u", "v", "w", "x", "y", "z">>

WordChars == {AsciiOrder[i] : i \in 1 .. Len(AsciiOrder)}

Ord(c) == CHOOSE i \in 1 .. Len(AsciiOrder) : AsciiOrder[i] = c

DigitVal(c) ==
    CASE c = "0" -> 0 [] c = "1" -> 1 [] c = "2" -> 2 [] c = "3" -> 3
      [] c = "4" -> 4 [] c = "5" -> 5 [] c = "6" -> 6 [] c = "7" -> 7
      [] c = "8" -> 8 [] c = "9" -> 9

DigitChar(d) ==
    CASE d = 0 -> "0" [] d = 1 -> "1" [] d = 2 -> "2" [] d = 3 -> "3"
      [] d = 4 -> "4" [] d = 5 -> "5" [] d = 6 -> "6" [] d = 7 -> "7"
      [] d = 8 -> "8" [] d = 9 -> "9"

\* a float64 that is NaN / a column value that is missing
NaN == [nan |-> TRUE, v |-> 0]
Num(n) == [nan |-> FALSE, v |-> n]
NoText == [null |-> TRUE, s |-> <<>>]
Text(s) == [null |-> FALSE, s |-> s]

IsNumeric(s) == Len(s) > 0 /\ \A i \in 1 .. Len(s) : s[i] \in Digits

RECURSIVE DecimalValue(_)
DecimalValue(s) ==
    IF Len(s) = 0 THEN 0
    ELSE 10 * DecimalValue(SubSeq(s, 1, Len(s) - 1)) + DigitVal(s[Len(s)])

\* str(year) of the request parameter "Year": str(year)
RECURSIVE str(_)
str(n) ==
    IF n < 10 THEN <<DigitChar(n)>>
    ELSE Append(str(n \div 10), DigitChar(n % 10))

(***************************************************************************)
(* process_bea_data                                                        *)
(***************************************************************************)
\* df['DataValue'].str.replace(',', '')
str_replace(s) == SelectSeq(s, LAMBDA c : c # ",")

\* pd.to_numeric(..., errors='coerce') / 1000, in thousandths of a billion
gdp_billions_of(DataValue) ==
    LET t == str_replace(DataValue)
    IN  IF IsNumeric(t) THEN Num(DecimalValue(t)) ELSE NaN

\* df['GeoName'].str.extract(r'(.*), (\w{2})$'): the greedy first group starts
\* at the first character and the tail is anchored at the end of the string
str_extract(GeoName) ==
    LET n == Len(GeoName)
    IN  IF /\ n >= 4
           /\ GeoName[n - 3] = ","
           /\ GeoName[n - 2] = " "
           /\ GeoName[n - 1] \in WordChars
           /\ GeoName[n] \in WordChars
        THEN [county_name |-> Text(SubSeq(GeoName, 1, n - 4)),
              state_code |-> Text(SubSeq(GeoName, n - 1, n))]
        ELSE [county_name |-> NoText, state_code |-> NoText]

\* the year read from the last two digits of the period only
Mut_ProcessRow_ShortYear(r) ==
    [GeoFips |-> r.GeoFips, GeoName |-> r.GeoName,
     DataValue |-> r.DataValue, TimePeriod |-> r.TimePeriod,
     gdp_billions |-> gdp_billions_of(r.DataValue),
     county_name |-> str_extract(r.GeoName).county_name,
     state_code |-> str_extract(r.GeoName).state_code,
     fips_code |-> r.GeoFips,
     year |-> DecimalValue(r.TimePeriod) % 100]

\* one row of the frame process_bea_data returns: the raw columns stay in it
ProcessRow(r) ==
    [GeoFips |-> r.GeoFips, GeoName |-> r.GeoName,
     DataValue |-> r.DataValue, TimePeriod |-> r.TimePeriod,
     gdp_billions |-> gdp_billions_of(r.DataValue),
     county_name |-> str_extract(r.GeoName).county_name,
     state_code |-> str_extract(r.GeoName).state_code,
     fips_code |-> r.GeoFips,
     year |-> DecimalValue(r.TimePeriod)]

NoFrame == [tag |-> "None", rows |-> <<>>]
Frame(rows) == [tag |-> "DataFrame", rows |-> rows]
Raised(what) == [tag |-> what, rows |-> <<>>]

\* pd.to_numeric(df['TimePeriod']) has errors='raise': one value that is not a
\* number raises ValueError for the whole column (the inputs of the model hold
\* no empty TimePeriod, which pandas reads as a missing value)
process_bea_data(df) ==
    IF df.tag = "None" \/ Len(df.rows) = 0 THEN NoFrame
    ELSE IF \E i \in 1 .. Len(df.rows) : ~IsNumeric(df.rows[i].TimePeriod)
         THEN Raised("ValueError")
         ELSE Frame([i \in 1 .. Len(df.rows) |-> ProcessRow(df.rows[i])])

(***************************************************************************)
(* fetch_county_gdp                                                        *)
(***************************************************************************)
\* What requests.get meets.  kind: "network_error" (requests.get raises a
\* RequestException), "http_error" (raise_for_status raises HTTPError),
\* "not_json" (the body is no JSON document), "json".  For a JSON body, beaapi
\* and results say what data["BEAAPI"] and data["BEAAPI"]["Results"] are
\* ("absent", "null", "object"), data what results["Data"] is ("absent",
\* "array"), rows the array; without a JSON body they are "undefined".
Response(kind, beaapi, results, data, rows) ==
    [kind |-> kind, beaapi |-> beaapi, results |-> results, data |-> data,
     rows |-> rows]

NetworkError == Response("network_error", "undefined", "undefined", "undefined", <<>>)
HttpError == Response("http_error", "undefined", "undefined", "undefined", <<>>)
NotJson == Response("not_json", "undefined", "undefined", "undefined", <<>>)
NoBeaapi == Response("json", "absent", "absent", "absent", <<>>)
BeaapiNull == Response("json", "null", "absent", "absent", <<>>)
NoResults == Response("json", "object", "absent", "absent", <<>>)
ResultsNull == Response("json", "object", "null", "absent", <<>>)
NoDataKey == Response("json", "object", "object", "absent", <<>>)
DataRows(rows) == Response("json", "object", "object", "array", rows)

\* The results fetch_county_gdp can have for a response.  Only
\* requests.exceptions.RequestException is caught.  `"Results" in None` and
\* `"Data" in None` raise TypeError.  response.json() on a body that is no
\* JSON raises a RequestException subclass in requests >= 2.27 and a plain
\* ValueError before: both builds are possible.
fetch_county_gdp(resp) ==
    CASE resp.kind = "network_error" -> {NoFrame}
      [] resp.kind = "http_error" -> {NoFrame}
      [] resp.kind = "not_json" -> {NoFrame, Raised("ValueError")}
      [] OTHER ->
           IF resp.beaapi = "absent" THEN {NoFrame}
           ELSE IF resp.beaapi = "null" THEN {Raised("TypeError")}
           ELSE IF resp.results = "absent" THEN {NoFrame}
           ELSE IF resp.results = "null" THEN {Raised("TypeError")}
           ELSE IF resp.data = "absent" THEN {NoFrame}
           ELSE {Frame(resp.rows)}

(***************************************************************************)
(* The SQLite file county_gdp_historical.db                                *)
(*                                                                         *)
(* db is what the file holds durably.  sqlite3 in its default transaction  *)
(* mode runs CREATE, DROP and the other schema statements outside any      *)
(* transaction, so each is durable as soon as it returns; to_sql runs its  *)
(* INSERTs in one transaction that it commits itself, and rolls back when  *)
(* an INSERT fails.  Nothing is pending when conn.commit() is reached.     *)
(***************************************************************************)
NoTable == [exists |-> FALSE, pk |-> FALSE, rows |-> <<>>]
TableNames == {"states", "counties"}
ViewNames == {"county_growth", "state_growth", "county_rankings_by_year"}
IndexNames ==
    {"idx_counties_state_year", "idx_counties_gdp", "idx_counties_fips_year"}

NoDb ==
    [file |-> FALSE, tables |-> [t \in TableNames |-> NoTable],
     views |-> {}, indexes |-> {}]

\* sqlite3.connect(db_name): the file is created when it is missing
Connect(d) == [d EXCEPT !.file = TRUE]

\* CREATE TABLE IF NOT EXISTS <name> (..., PRIMARY KEY (...))
CreateTableIfNotExists(d, name) ==
    IF d.tables[name].exists THEN d
    ELSE [d EXCEPT !.tables[name] =
                       [exists |-> TRUE, pk |-> TRUE, rows |-> <<>>]]

\* DROP TABLE without effect, as if_exists='append' would leave the table
Mut_DropTable_Append(d, name) == d

\* to_sql(if_exists='replace'), first statement: DROP TABLE; the indexes of
\* the table go with it (all three indexes are on counties)
DropTable(d, name) ==
    [d EXCEPT !.tables[name] = NoTable,
              !.indexes = IF name = "counties" THEN {} ELSE @]

\* to_sql, second statement: CREATE TABLE with the frame's columns, no key
CreateTable(d, name) ==
    [d EXCEPT !.tables[name] = [exists |-> TRUE, pk |-> FALSE, rows |-> <<>>]]

\* to_sql, third step: the INSERTs and their commit
InsertRows(d, name, rows) ==
    [d EXCEPT !.tables[name].rows = @ \o rows]

CreateViewIfNotExists(d, name) == [d EXCEPT !.views = @ \cup {name}]
CreateIndexIfNotExists(d, name) == [d EXCEPT !.indexes = @ \cup {name}]

(***************************************************************************)
(* create_database: the state summaries and the county rows                *)
(***************************************************************************)
\* the (state_code, year) keys of groupby: rows with a missing state_code
\* are dropped (dropna=True)
GroupKeys(rows) ==
    {<<rows[i].state_code.s, rows[i].year>> :
        i \in {j \in 1 .. Len(rows) : ~rows[j].state_code.null}}

InGroup(r, key) ==
    ~r.state_code.null /\ r.state_code.s = key[1] /\ r.year = key[2]

\* agg 'sum': the sum of the values that are not NaN (0.0 when there is none)
RECURSIVE GroupSum(_, _)
GroupSum(rows, key) ==
    IF Len(rows) = 0 THEN 0
    ELSE (IF InGroup(Head(rows), key) /\ ~Head(rows).gdp_billions.nan
          THEN Head(rows).gdp_billions.v ELSE 0)
         + GroupSum(Tail(rows), key)

\* agg 'count': the number of values that are not NaN
GroupCount(rows, key) ==
    Cardinality({i \in 1 .. Len(rows) :
                    InGroup(rows[i], key) /\ ~rows[i].gdp_billions.nan})

\* groupby sorts its keys: state_code as Python compares strings, then year
KeyBefore(a, b) ==
    LET n == IF Len(a[1]) < Len(b[1]) THEN Len(a[1]) ELSE Len(b[1])
        diff == {i \in 1 .. n : a[1][i] # b[1][i]}
    IN  IF a[1] = b[1] THEN a[2] < b[2]
        ELSE IF diff = {} THEN Len(a[1]) < Len(b[1])
        ELSE LET i == CHOOSE k \in diff : \A m \in diff : k <= m
             IN  Ord(a[1][i]) < Ord(b[1][i])

RECURSIVE SortedKeys(_)
SortedKeys(keys) ==
    IF keys = {} THEN <<>>
    ELSE LET k == CHOOSE x \in keys :
                     \A y \in keys \ {x} : KeyBefore(x, y)
         IN  <<k>> \o SortedKeys(keys \ {k})

SummaryRow(rows, key) ==
    [state_code |-> Text(key[1]), year |-> key[2],
     total_gdp |-> Num(GroupSum(rows, key)),
     num_counties |-> GroupCount(rows, key)]

state_summaries(rows) ==
    LET keys == SortedKeys(GroupKeys(rows))
    IN  [i \in 1 .. Len(keys) |-> SummaryRow(rows, keys[i])]

CountyRow(r) ==
    [fips_code |-> r.fips_code, county_name |-> r.county_name,
     state_code |-> r.state_code, gdp_billions |-> r.gdp_billions,
     year |-> r.year]

\* all_data[['fips_code', 'county_name', 'state_code', 'gdp_billions', 'year']]
county_data(rows) == [i \in 1 .. Len(rows) |-> CountyRow(rows[i])]

(***************************************************************************)
(* The view county_growth                                                  *)
(***************************************************************************)
NoRate == [null |-> TRUE, num |-> 0, den |-> 1]
\* the rational num / den
Rate(num, den) == [null |-> FALSE, num |-> num, den |-> den]

\* c1.gdp_billions / c2.gdp_billions - 1: NULL when an operand is NULL, and
\* NULL when the divisor is 0 (SQLite)
growth_expr(g1, g2) ==
    IF g1.nan \/ g2.nan \/ g2.v = 0 THEN NoRate
    ELSE Rate(g1.v - g2.v, g2.v)

\* the join with the following year in place of the preceding one
Mut_growth_join_NextYear(c1, c2) ==
    c1.fips_code = c2.fips_code /\ c1.year + 1 = c2.year

\* ON c1.fips_code = c2.fips_code AND c1.year = c2.year + 1
growth_join(c1, c2) == c1.fips_code = c2.fips_code /\ c1.year = c2.year + 1

\* The rows of the view over the counties rows cs, as the set of
\* [i, j, rate]: i the row of c1, j the row of c2 it is joined with (0 when
\* the LEFT JOIN finds none)
county_growth(cs) ==
    {[i |-> i, j |-> j, annual_growth_rate |->
         growth_expr(cs[i].gdp_billions, cs[j].gdp_billions)] :
        <<i, j>> \in {p \in (1 .. Len(cs)) \X (1 .. Len(cs)) :
                        growth_join(cs[p[1]], cs[p[2]])}}
    \cup
    {[i |-> i, j |-> 0, annual_growth_rate |-> NoRate] :
        i \in {k \in 1 .. Len(cs) :
                  \A m \in 1 .. Len(cs) : ~growth_join(cs[k], cs[m])}}

(***************************************************************************)
(* What the upstream API can answer                                        *)
(***************************************************************************)
RawRow(fips, name, value, period) ==
    [GeoFips |-> fips, GeoName |-> name, DataValue |-> value,
     TimePeriod |-> period]

GeoAbAL == <<"A", "b", ",", " ", "A", "L">>
GeoCdAL == <<"C", "d", ",", " ", "A", "L">>
GeoCdTX == <<"C", "d", ",", " ", "T", "X">>
GeoEfAK == <<"E", "f", ",", " ", "A", "K">>
GeoNoComma == <<"A", "b", " ", "A", "L">>
GeoOneLetter == <<"A", "b", ",", " ", "A">>
GeoNoState == <<"C", "d">>
Value2000 == <<"2", ",", "0", "0", "0">>
Value900 == <<"9", "0", "0">>
Value700 == <<"7", "0", "0">>
Value500 == <<"5", "0", "0">>
Value0 == <<"0">>
ValueNA == <<"(", "N", "A", ")">>
ValueEmpty == <<>>
PeriodBad == <<"2", "0", "x", "4">>

\* the sequences over S of length lo .. hi
SeqsOf(S, lo, hi) ==
    UNION {[1 .. n -> S] : n \in lo .. hi}

\* the rows a response to the request for year y is drawn from: the county
\* with the requested period, the county with the first year's period and no
\* value, and a row whose period is no number
UpstreamRows(y) ==
    {RawRow("01001", GeoAbAL, Value2000, str(y)),
     RawRow("01001", GeoAbAL, ValueNA, str(FirstYear)),
     RawRow("01003", GeoCdTX, Value500, PeriodBad)}

Responses(y) ==
    {NetworkError, HttpError, NotJson, NoBeaapi, BeaapiNull, NoResults,
     ResultsNull, NoDataKey}
    \cup {DataRows(b) : b \in SeqsOf(UpstreamRows(y), 0, MaxRows)}

\* the rows of the raw batches process_bea_data is tried on alone
NormRows ==
    {RawRow(f, n, v, t) :
        f \in {"01001", "01003"},
        n \in {GeoAbAL, GeoCdTX, GeoNoComma, GeoOneLetter},
        v \in {Value2000, Value0, ValueNA, ValueEmpty},
        t \in {str(FirstYear), str(FirstYear + 1), PeriodBad}}

\* the rows of the combined data create_database is tried on alone
DbRows ==
    {RawRow("01001", GeoAbAL, v, str(y)) :
        v \in {Value2000, Value0, ValueNA}, y \in {FirstYear, FirstYear + 1}}
    \cup
    {RawRow("01003", GeoCdAL, v, str(y)) :
        v \in {Value2000, Value0, ValueNA}, y \in {FirstYear, FirstYear + 1}}
    \cup
    {RawRow("01003", GeoCdTX, Value2000, str(FirstYear)),
     RawRow("01003", GeoNoState, Value2000, str(FirstYear + 1))}

\* the data an earlier run loaded into the file
PriorData ==
    <<ProcessRow(RawRow("02013", GeoEfAK, Value700, str(FirstYear))),
      ProcessRow(RawRow("01001", GeoAbAL, Value900, str(FirstYear)))>>

(***************************************************************************)
(* create_database as one function of the file and the data: what the file *)
(* holds after a run in which no statement fails                           *)
(***************************************************************************)
\* to_sql(name, conn, if_exists='replace'): an existing table is dropped, the
\* table that is then missing is created, the rows are inserted
ToSql(d, name, rows) ==
    LET dropped == IF d.tables[name].exists THEN DropTable(d, name) ELSE d
        created == IF dropped.tables[name].exists THEN dropped
                   ELSE CreateTable(dropped, name)
    IN  InsertRows(created, name, rows)

create_database(d, data) ==
    LET d1 == CreateTableIfNotExists(
                  CreateTableIfNotExists(Connect(d), "states"), "counties")
        d2 == ToSql(d1, "states", state_summaries(data))
        d3 == ToSql(d2, "counties", county_data(data))
    IN  [d3 EXCEPT !.views = @ \cup ViewNames, !.indexes = @ \cup IndexNames]

PriorDb == create_database(NoDb, PriorData)

(***************************************************************************)
(* main: the loop over the years                                           *)
(***************************************************************************)
NoResponse == Response("none", "absent", "absent", "absent", <<>>)

RECURSIVE concat(_)
\* pd.concat(all_data_frames, ignore_index=True)
concat(frames) ==
    IF Len(frames) = 0 THEN <<>> ELSE Head(frames) \o concat(Tail(frames))

Init ==
    /\ pc = "fetch"
    /\ year = FirstYear
    /\ response = NoResponse
    /\ raw_data = NoFrame
    /\ processed_data = NoFrame
    /\ all_data_frames = <<>>
    /\ all_data = <<>>
    /\ db \in {NoDb, PriorDb}
    /\ prior = db
    /\ log = <<>>

\* raw_data = fetch_county_gdp(API_KEY, year), and the test that follows it
Fetch ==
    /\ pc = "fetch"
    /\ \E resp \in Responses(year) : \E out \in fetch_county_gdp(resp) :
          /\ response' = resp
          /\ log' = Append(log, [op |-> "get", year |-> year])
          /\ IF out.tag \notin {"None", "DataFrame"}
             THEN pc' = "raised" /\ UNCHANGED raw_data
             ELSE /\ raw_data' = out
                  /\ pc' = IF out.tag = "None" THEN "sleep" ELSE "process"
    /\ UNCHANGED <<year, processed_data, all_data_frames, all_data, db, prior>>

\* processed_data = process_bea_data(raw_data), appended when it is not None
Process ==
    /\ pc = "process"
    /\ LET out == process_bea_data(raw_data)
       IN  IF out.tag \notin {"None", "DataFrame"}
           THEN pc' = "raised" /\ UNCHANGED <<processed_data, all_data_frames>>
           ELSE /\ processed_data' = out
                /\ all_data_frames' =
                       IF out.tag = "None" THEN all_data_frames
                       ELSE Append(all_data_frames, out.rows)
                /\ pc' = "sleep"
    /\ UNCHANGED <<year, response, raw_data, all_data, db, prior, log>>

\* the loop's step without the pause
Mut_Sleep_NoPause ==
    /\ pc = "sleep"
    /\ IF year < LastYear
       THEN year' = year + 1 /\ pc' = "fetch"
       ELSE year' = year /\ pc' = "combine"
    /\ UNCHANGED <<response, raw_data, processed_data, all_data_frames,
                   all_data, db, prior, log>>

\* time.sleep(0.5), the last statement of the loop body, and the loop's step
Sleep ==
    /\ pc = "sleep"
    /\ log' = Append(log, [op |-> "sleep", year |-> year])
    /\ IF year < LastYear
       THEN year' = year + 1 /\ pc' = "fetch"
       ELSE year' = year /\ pc' = "combine"
    /\ UNCHANGED <<response, raw_data, processed_data, all_data_frames,
                   all_data, db, prior>>

\* the call of create_database without the test for an empty list
Mut_Combine_NoTest ==
    /\ pc = "combine"
    /\ all_data' = concat(all_data_frames)
    /\ pc' = "connect"
    /\ UNCHANGED <<year, response, raw_data, processed_data, all_data_frames,
                   db, prior, log>>

\* `if not all_data_frames: return`, else pd.concat and the call of
\* create_database
Combine ==
    /\ pc = "combine"
    /\ IF Len(all_data_frames) = 0
       THEN pc' = "done" /\ UNCHANGED all_data
       ELSE all_data' = concat(all_data_frames) /\ pc' = "connect"
    /\ UNCHANGED <<year, response, raw_data, processed_data, all_data_frames,
                   db, prior, log>>

(***************************************************************************)
(* create_database, statement by statement                                 *)
(***************************************************************************)
\* the statements of create_database in the order of the code; pc names the
\* statement that runs next
DbSteps ==
    <<"connect", "create_states", "create_counties",
      "states_drop", "states_create", "states_insert",
      "counties_drop", "counties_create", "counties_insert",
      "county_growth", "state_growth", "county_rankings_by_year",
      "idx_counties_state_year", "idx_counties_gdp", "idx_counties_fips_year",
      "commit">>

InCreateDatabase == \E i \in 1 .. Len(DbSteps) : DbSteps[i] = pc

StepAfter(p) ==
    LET i == CHOOSE k \in 1 .. Len(DbSteps) : DbSteps[k] = p
    IN  IF i < Len(DbSteps) THEN DbSteps[i + 1] ELSE "report"

\* the table a to_sql step works on, and the rows it loads
TableOf(p) == IF p \in {"states_drop", "states_create", "states_insert"}
              THEN "states" ELSE "counties"

FrameOf(name, data) ==
    IF name = "states" THEN state_summaries(data) ELSE county_data(data)

DbUnchanged ==
    UNCHANGED <<year, response, raw_data, processed_data, all_data_frames,
                all_data, prior>>

\* conn = sqlite3.connect(db_name)
DbConnect ==
    /\ pc = "connect"
    /\ db' = Connect(db)
    /\ log' = Append(log, [op |-> "connect", year |-> year])
    /\ pc' = StepAfter(pc)
    /\ DbUnchanged

\* the two CREATE TABLE IF NOT EXISTS
DbCreateTables ==
    /\ pc \in {"create_states", "create_counties"}
    /\ db' = CreateTableIfNotExists(
                 db, IF pc = "create_states" THEN "states" ELSE "counties")
    /\ pc' = StepAfter(pc)
    /\ UNCHANGED log /\ DbUnchanged

\* to_sql(..., if_exists='replace'): the table exists, it is dropped
ToSqlDrop ==
    /\ pc \in {"states_drop", "counties_drop"}
    /\ db' = IF db.tables[TableOf(pc)].exists
             THEN DropTable(db, TableOf(pc)) ELSE db
    /\ pc' = StepAfter(pc)
    /\ UNCHANGED log /\ DbUnchanged

\* to_sql: the table, missing now, is created from the frame's columns
ToSqlCreate ==
    /\ pc \in {"states_create", "counties_create"}
    /\ db' = IF db.tables[TableOf(pc)].exists THEN db
             ELSE CreateTable(db, TableOf(pc))
    /\ pc' = StepAfter(pc)
    /\ UNCHANGED log /\ DbUnchanged

\* to_sql: the frame's rows are inserted and committed
ToSqlInsert ==
    /\ pc \in {"states_insert", "counties_insert"}
    /\ db' = InsertRows(db, TableOf(pc), FrameOf(TableOf(pc), all_data))
    /\ pc' = StepAfter(pc)
    /\ UNCHANGED log /\ DbUnchanged

\* the three CREATE VIEW IF NOT EXISTS
DbCreateView ==
    /\ pc \in ViewNames
    /\ db' = CreateViewIfNotExists(db, pc)
    /\ pc' = StepAfter(pc)
    /\ UNCHANGED log /\ DbUnchanged

\* the three CREATE INDEX IF NOT EXISTS
DbCreateIndex ==
    /\ pc \in IndexNames
    /\ db' = CreateIndexIfNotExists(db, pc)
    /\ pc' = StepAfter(pc)
    /\ UNCHANGED log /\ DbUnchanged

\* conn.commit(); return conn
DbCommit ==
    /\ pc = "commit"
    /\ pc' = StepAfter(pc)
    /\ UNCHANGED <<db, log>> /\ DbUnchanged

\* A statement of create_database raises (the disk is full, the file is
\* locked or cannot be written).  The statement has no effect; a failed
\* INSERT is rolled back by to_sql.  Nothing in create_database or main
\* catches the exception or undoes the statements before it.
DbStatementFails ==
    /\ InCreateDatabase
    /\ pc' = "db_raised"
    /\ UNCHANGED <<db, log>> /\ DbUnchanged

\* the two read-only queries of main and conn.close()
Report ==
    /\ pc = "report"
    /\ pc' = "done"
    /\ UNCHANGED <<db, log>> /\ DbUnchanged

NextDb ==
    \/ DbConnect \/ DbCreateTables \/ ToSqlDrop \/ ToSqlCreate \/ ToSqlInsert
    \/ DbCreateView \/ DbCreateIndex \/ DbCommit \/ DbStatementFails
    \/ Report

Next == Fetch \/ Process \/ Sleep \/ Combine \/ NextDb

\* the whole pipeline
Spec == Init /\ [][Next]_vars

\* the whole request log of a run in which no request raises
RECURSIVE FullLog(_)
FullLog(y) ==
    IF y < FirstYear THEN <<>>
    ELSE FullLog(y - 1) \o
         <<[op |-> "get", year |-> y], [op |-> "sleep", year |-> y]>>

\* create_database alone, entered with a combined data set drawn from DbRows;
\* the file is missing, or was loaded by an earlier run with PriorData, or was
\* loaded by an earlier run with the same data
InitDb ==
    /\ pc = "connect"
    /\ year = LastYear
    /\ response = NoResponse
    /\ raw_data = NoFrame
    /\ processed_data = NoFrame
    /\ \E rows \in SeqsOf(DbRows, 1, MaxRows) :
          all_data = [i \in 1 .. Len(rows) |-> ProcessRow(rows[i])]
    /\ all_data_frames = <<all_data>>
    /\ db \in {NoDb, PriorDb, create_database(NoDb, all_data)}
    /\ prior = db
    /\ log = FullLog(LastYear)

SpecDb == InitDb /\ [][NextDb]_vars

\* process_bea_data alone, called on a raw batch drawn from NormRows
InitNorm ==
    /\ pc = "process"
    /\ year \in Years
    /\ response \in {DataRows(b) : b \in SeqsOf(NormRows, 0, MaxRows)}
    /\ raw_data = Frame(response.rows)
    /\ processed_data = NoFrame
    /\ all_data_frames = <<>>
    /\ all_data = <<>>
    /\ db = NoDb
    /\ prior = db
    /\ log = <<[op |-> "get", year |-> year]>>

NextNorm == Process

SpecNorm == InitNorm /\ [][NextNorm]_vars

(***************************************************************************)
(* Properties                                                              *)
(***************************************************************************)
counties == db.tables["counties"].rows
states == db.tables["states"].rows

\* the (state_code, year) pairs that occur in the counties table
CountyPairs ==
    {<<counties[i].state_code.s, counties[i].year>> :
        i \in {j \in 1 .. Len(counties) : ~counties[j].state_code.null}}

MatchingCounties(key) ==
    {i \in 1 .. Len(counties) : InGroup(counties[i], key)}

\* create_database has run to its end in this run
LoadSucceeded == pc \in {"report", "done"} /\ Len(all_data) > 0

\* C1: after a successful run of create_database, for every (state_code,
\* year) pair of the counties table the states row with that key has
\* total_gdp equal to the sum of the non-null gdp_billions of the matching
\* county rows and num_counties equal to the number of matching county rows,
\* those with a null gdp_billions included.
C1_StateRowAggregatesItsCounties ==
    LoadSucceeded =>
        \A key \in CountyPairs :
            \E k \in 1 .. Len(states) :
                /\ states[k].state_code = Text(key[1])
                /\ states[k].year = key[2]
                /\ states[k].total_gdp = Num(GroupSum(counties, key))
                /\ states[k].num_counties = Cardinality(MatchingCounties(key))

\* the rows of a table, none when the table is missing
RowsOf(d, name) == d.tables[name].rows

\* C2: when a statement of create_database fails before the final commit,
\* the states and counties tables still hold exactly the rows they held
\* before the run, and no table that existed is missing.
C2_FailedLoadLeavesTablesIntact ==
    pc = "db_raised" =>
        \A name \in TableNames :
            /\ RowsOf(db, name) = RowsOf(prior, name)
            /\ prior.tables[name].exists => db.tables[name].exists

\* the request failed: a network error, a non-success status, a malformed
\* envelope, or an envelope with no data rows (a body that is no JSON at all
\* is left out: what it leads to depends on the requests release)
RequestFailed(resp) ==
    \/ resp.kind \in {"network_error", "http_error"}
    \/ resp.kind = "json" /\ resp.data = "absent"
    \/ resp.kind = "json" /\ resp.data = "array" /\ Len(resp.rows) = 0

\* the call of fetch_county_gdp for `year` has returned or raised, and the
\* loop has not moved on
AfterFetch ==
    /\ Len(log) > 0
    /\ log[Len(log)] = [op |-> "get", year |-> year]

\* C3: when the request for a year fails, fetch_county_gdp returns the
\* no-data signal without raising, and main goes on to the pause and the
\* next year with nothing accumulated for that year.
C3_FailedRequestIsSkipped ==
    (AfterFetch /\ RequestFailed(response)) =>
        /\ pc = "sleep"
        /\ raw_data = NoFrame

HasConnect == \E i \in 1 .. Len(log) : log[i].op = "connect"

\* C4: when no year produces data, main ends without calling
\* create_database: the file is not opened and holds what it held.
C4_NoDataNoStore ==
    (Len(all_data_frames) = 0 /\ pc \notin {"fetch", "process", "sleep", "combine"})
        => (db = prior /\ ~HasConnect /\ pc \in {"done", "raised"})

\* a run in which every year was asked for, none gave data, and main
\* returned with the earlier file untouched
C4_Witness ==
    /\ pc = "done"
    /\ Len(all_data_frames) = 0
    /\ Len(log) = 2 * NumYears
    /\ prior = PriorDb
    /\ db = PriorDb

KeyUnique(rows) ==
    \A i, j \in 1 .. Len(rows) :
        (rows[i].fips_code = rows[j].fips_code /\ rows[i].year = rows[j].year)
            => i = j

\* C5: after a successful run no two rows of the counties table, and no two
\* records of the combined data, share (fips_code, year).
C5_CountyKeyUnique ==
    LoadSucceeded => (KeyUnique(counties) /\ KeyUnique(all_data))

\* C6: process_bea_data does not raise on a batch with a malformed row; it
\* gives one record per raw row, with a null gdp_billions where DataValue is
\* no number and null county_name and state_code where GeoName does not end
\* in ", " and a two-character code.
C6_MalformedRowStaysInRow ==
    pc # "process" =>
        /\ pc # "raised"
        /\ Len(raw_data.rows) > 0 =>
               /\ processed_data.tag = "DataFrame"
               /\ Len(processed_data.rows) = Len(raw_data.rows)
               /\ \A i \in 1 .. Len(raw_data.rows) :
                      LET raw == raw_data.rows[i]
                          rec == processed_data.rows[i]
                          n == Len(raw.GeoName)
                      IN  /\ rec.fips_code = raw.GeoFips
                          /\ ~IsNumeric(str_replace(raw.DataValue))
                                 => rec.gdp_billions.nan
                          /\ (n < 4 \/ SubSeq(raw.GeoName, n - 3, n - 2) # <<",", " ">>)
                                 => (rec.county_name.null /\ rec.state_code.null)

\* the frame of this iteration has been processed and accumulated
FrameAccumulated ==
    /\ pc = "sleep"
    /\ raw_data.tag = "DataFrame"
    /\ Len(raw_data.rows) > 0

\* C7, as claimed: every record produced and accumulated for the request of
\* year Y has year Y.
C7_YearIsRequestedYear ==
    FrameAccumulated =>
        \A i \in 1 .. Len(processed_data.rows) :
            processed_data.rows[i].year = year

\* C7, amended: every record produced and accumulated for the request of
\* year Y has the year that its raw row's TimePeriod denotes, one record per
\* raw row in the order of the response; it is Y for the rows whose
\* TimePeriod is str(Y).
C7_YearIsReportedPeriod ==
    FrameAccumulated =>
        /\ all_data_frames[Len(all_data_frames)] = processed_data.rows
        /\ Len(processed_data.rows) = Len(response.rows)
        /\ \A i \in 1 .. Len(processed_data.rows) :
              /\ processed_data.rows[i].TimePeriod = response.rows[i].TimePeriod
              /\ str(processed_data.rows[i].year) = response.rows[i].TimePeriod
              /\ response.rows[i].TimePeriod = str(year)
                     => processed_data.rows[i].year = year

\* the request for a later year was answered with a row of the first year
C7_Witness ==
    /\ FrameAccumulated
    /\ year > FirstYear
    /\ \E i \in 1 .. Len(processed_data.rows) :
          processed_data.rows[i].year = FirstYear
    /\ \E i \in 1 .. Len(processed_data.rows) :
          processed_data.rows[i].year = year

\* the rows of the view, and the counties rows each is made of
GrowthRows == county_growth(counties)

Predecessor(i, j) ==
    /\ counties[j].fips_code = counties[i].fips_code
    /\ counties[j].year = counties[i].year - 1

HasPredecessor(i) == \E j \in 1 .. Len(counties) : Predecessor(i, j)

\* rate = cur / prev - 1, for the rational rate and prev # 0
IsRatioMinusOne(rate, cur, prev) ==
    /\ ~rate.null
    /\ rate.den # 0
    /\ (rate.num + rate.den) * prev = cur * rate.den

ViewLoaded == LoadSucceeded /\ "county_growth" \in db.views

\* C8, as claimed: a row of county_growth has a null annual_growth_rate when
\* counties holds no row of the county for the year before, in every other
\* case the rate is gdp_billions(C, Y) / gdp_billions(C, Y-1) - 1, and every
\* counties row appears in the view.
C8_GrowthRateIsRatio ==
    ViewLoaded =>
        /\ \A i \in 1 .. Len(counties) : \E r \in GrowthRows : r.i = i
        /\ \A r \in GrowthRows :
              IF ~HasPredecessor(r.i) THEN r.annual_growth_rate.null
              ELSE /\ r.j # 0
                   /\ Predecessor(r.i, r.j)
                   /\ counties[r.j].gdp_billions.v # 0
                   /\ IsRatioMinusOne(r.annual_growth_rate,
                                      counties[r.i].gdp_billions.v,
                                      counties[r.j].gdp_billions.v)

\* the rate is undefined: a gdp_billions is null or the divisor is 0
RateUndefined(i, j) ==
    \/ counties[i].gdp_billions.nan
    \/ counties[j].gdp_billions.nan
    \/ counties[j].gdp_billions.v = 0

\* C8, amended: a row of county_growth has a null annual_growth_rate when
\* counties holds no row of the county for the year before, and also when
\* the gdp_billions of either year is null or that of the year before is 0;
\* in every other case the rate is gdp_billions(C, Y) / gdp_billions(C, Y-1)
\* - 1 for the row of year Y-1 it is joined with; every counties row appears
\* in the view, once for each of its rows of the year before.
C8_GrowthRateNullOrRatio ==
    ViewLoaded =>
        /\ \A i \in 1 .. Len(counties) : \E r \in GrowthRows : r.i = i
        /\ \A i, j \in 1 .. Len(counties) :
              Predecessor(i, j) => \E r \in GrowthRows : r.i = i /\ r.j = j
        /\ \A r \in GrowthRows :
              IF ~HasPredecessor(r.i)
              THEN r.j = 0 /\ r.annual_growth_rate.null
              ELSE /\ r.j # 0
                   /\ Predecessor(r.i, r.j)
                   /\ IF RateUndefined(r.i, r.j)
                      THEN r.annual_growth_rate.null
                      ELSE IsRatioMinusOne(r.annual_growth_rate,
                                           counties[r.i].gdp_billions.v,
                                           counties[r.j].gdp_billions.v)

\* a county with rows for two successive years: the row of the first year
\* has no rate, the row of the second has one that is not 0
C8_Witness ==
    /\ ViewLoaded
    /\ \E r \in GrowthRows : r.j = 0 /\ r.annual_growth_rate.null
    /\ \E r \in GrowthRows :
          /\ r.j # 0
          /\ ~r.annual_growth_rate.null
          /\ r.annual_growth_rate.num # 0

\* C9: a successful run overwrites the store: counties holds the county
\* columns of the combined data of this run, row for row, states holds one
\* row for each (state_code, year) of that data and no other, no row of an
\* earlier run survives unless this run's data gives the same row, and a run
\* over a file loaded from the same data leaves the file as it was.
C9_RunOverwritesStore ==
    LoadSucceeded =>
        /\ Len(counties) = Len(all_data)
        /\ \A i \in 1 .. Len(counties) :
              /\ counties[i].fips_code = all_data[i].fips_code
              /\ counties[i].county_name = all_data[i].county_name
              /\ counties[i].state_code = all_data[i].state_code
              /\ counties[i].gdp_billions = all_data[i].gdp_billions
              /\ counties[i].year = all_data[i].year
        /\ Len(states) = Cardinality(GroupKeys(all_data))
        /\ \A k \in 1 .. Len(states) :
              /\ <<states[k].state_code.s, states[k].year>>
                     \in GroupKeys(all_data)
              /\ states[k] = SummaryRow(all_data,
                                 <<states[k].state_code.s, states[k].year>>)
        /\ \A k, m \in 1 .. Len(states) :
              (states[k].state_code = states[m].state_code
                  /\ states[k].year = states[m].year) => k = m
        /\ (prior = create_database(NoDb, all_data)) => db = prior

\* a run over a file that an earlier run loaded with other data, and a run
\* over a file loaded with the same data
C9_Witness ==
    /\ LoadSucceeded
    /\ pc = "done"
    /\ \/ /\ prior = PriorDb
          /\ \A i \in 1 .. Len(counties) : counties[i].fips_code # "02013"
          /\ Len(states) = 2
       \/ /\ prior = create_database(NoDb, all_data)
          /\ Len(counties) = MaxRows

GetAt(i) == log[i].op = "get"

\* C10: the years are requested one at a time in ascending order from
\* 2004; a request is issued only after the request of the year before and
\* one pause; the pause follows a request that gave no data as it follows
\* one that gave data; the store is opened and written only after the
\* request of the last year and its pause.
C10_RequestsInOrder ==
    /\ \A i \in 1 .. Len(log) :
          /\ (GetAt(i) /\ i = 1) => log[i].year = FirstYear
          /\ (GetAt(i) /\ i > 1) =>
                 /\ i > 2
                 /\ log[i - 1] = [op |-> "sleep", year |-> log[i].year - 1]
                 /\ log[i - 2] = [op |-> "get", year |-> log[i].year - 1]
          /\ (GetAt(i) /\ i < Len(log)) =>
                 log[i + 1] = [op |-> "sleep", year |-> log[i].year]
          /\ log[i].op = "connect" =>
                 /\ i = 2 * NumYears + 1
                 /\ log[i - 1] = [op |-> "sleep", year |-> LastYear]
    /\ Len(log) > 0 => GetAt(1)
    /\ (pc = "sleep" /\ raw_data.tag = "None") => GetAt(Len(log))
    /\ db # prior => HasConnect

\* a run in which a request gave no data, the pause and the later requests
\* followed, and the store was written at the end
C10_Witness ==
    /\ pc = "done"
    /\ db # prior
    /\ Len(all_data_frames) < NumYears
    /\ Len(log) = 2 * NumYears + 1

====
